---- MODULE Spec2Model ----
(***************************************************************************)
(* Model of fw's configuration catalog (src/config/mod.rs): the tag-merge  *)
(* resolution engine, the path expander, the sanity check and the          *)
(* add/update/load/save operations on the persisted catalog.               *)
(*                                                                         *)
(* Rust values are represented as follows.                                 *)
(*   String / &str / PathBuf : a sequence of one-character strings         *)
(*   Option<T>               : <<>> for None, <<v>> for Some(v)            *)
(*   BTreeSet<String>        : a set of strings, iterated by BTreeSetIter  *)
(*   BTreeMap<String, V>     : a function whose domain is the key set      *)
(*   Result<T, AppError>     : a record [ok, val, err]                     *)
(***************************************************************************)
EXTENDS Integers, Sequences, FiniteSets, TLC

VARIABLES
  home,      \* env::home_dir(): Option<PathBuf>, fixed for a process
  cfgPath,   \* maybe_config_override: Option<&str>
  file,      \* content of the config file: [kind, cfg]
  loaded,    \* the maybe_config a caller holds: Option<Result<Config, AppError>>
  call,      \* the last catalog operation and its inputs
  result,    \* Option<Result> of the last catalog operation
  ops,       \* number of catalog operations performed so far
  rin,       \* inputs of the last resolution / expansion call
  rout       \* its outcome

vars == <<home, cfgPath, file, loaded, call, result, ops, rin, rout>>

(***************************************************************************)
(* Strings                                                                 *)
(***************************************************************************)
None == <<>>
Some(v) == <<v>>
IsSome(o) == o # <<>>
Unwrap(o) == o[1]

\* The characters used, in ascending byte order (Rust compares Strings bytewise).
Ascii == <<" ", "&", ".", "/", "1", "2", "3", "4", ":", "@",
           "a", "b", "c", "d", "e", "f", "g", "h", "i", "j", "k", "l", "m",
           "n", "o", "p", "q", "r", "s", "t", "u", "v", "w", "x", "y", "z", "~">>

CharCode(c) == CHOOSE i \in 1..Len(Ascii) : Ascii[i] = c

\* <String as Ord>::lt
StrLess(a, b) ==
  \E k \in 1..(Len(a) + 1) :
    /\ k <= Len(b)
    /\ \A i \in 1..(k - 1) : a[i] = b[i]
    /\ \/ k = Len(a) + 1
       \/ CharCode(a[k]) < CharCode(b[k])

StartsWith(s, p) == Len(p) <= Len(s) /\ SubSeq(s, 1, Len(p)) = p
EndsWith(s, p) == Len(p) <= Len(s) /\ SubSeq(s, Len(s) - Len(p) + 1, Len(s)) = p

\* The literals of the source.
AndAnd == <<" ", "&", "&", " ">>
DotGit == <<".", "g", "i", "t">>
Http == <<"h", "t", "t", "p">>
GitAt == <<"g", "i", "t", "@">>
Tilde == <<"~">>
DefaultPriority == 50

RECURSIVE JoinStrings(_, _)
\* [String]::join(sep)
JoinStrings(v, sep) ==
  IF v = <<>> THEN <<>>
  ELSE IF Len(v) = 1 THEN v[1]
  ELSE v[1] \o sep \o JoinStrings(Tail(v), sep)

RECURSIVE BTreeSetIterDesc(_)
\* An iteration in descending order.
BTreeSetIterDesc(S) ==
  IF S = {} THEN <<>>
  ELSE LET m == CHOOSE x \in S : \A y \in S : ~StrLess(x, y)
       IN <<m>> \o BTreeSetIterDesc(S \ {m})

RECURSIVE BTreeSetIter(_)
\* BTreeSet<String>::iter() and BTreeMap keys: ascending order of the elements.
BTreeSetIter(S) ==
  IF S = {} THEN <<>>
  ELSE LET m == CHOOSE x \in S : \A y \in S : ~StrLess(y, x)
       IN <<m>> \o BTreeSetIter(S \ {m})

(***************************************************************************)
(* std::path on Unix, on the path's string                                 *)
(***************************************************************************)
RECURSIVE Segments(_)
\* The '/'-separated pieces of a string, empty pieces included.
Segments(s) ==
  IF \A i \in 1..Len(s) : s[i] # "/" THEN <<s>>
  ELSE LET k == CHOOSE i \in 1..Len(s) : s[i] = "/" /\ \A j \in 1..(i - 1) : s[j] # "/"
       IN <<SubSeq(s, 1, k - 1)>> \o Segments(SubSeq(s, k + 1, Len(s)))

HasRoot(p) == Len(p) > 0 /\ p[1] = "/"

\* Path::is_absolute (Unix: the path has a root)
IsAbsolute(p) == HasRoot(p)

\* Whether Path::components yields the i-th piece: empty pieces (repeated
\* separators) vanish, "." is kept only as the first component of a rootless
\* path.
KeepSegment(segs, i, rooted) ==
  /\ segs[i] # <<>>
  /\ (segs[i] = <<".">> => (i = 1 /\ ~rooted))

RECURSIVE NormalComponents(_, _, _)
\* The components among the first n pieces.
NormalComponents(segs, n, rooted) ==
  IF n = 0 THEN <<>>
  ELSE IF KeepSegment(segs, n, rooted)
  THEN NormalComponents(segs, n - 1, rooted) \o <<segs[n]>>
  ELSE NormalComponents(segs, n - 1, rooted)

ComponentsOf(segs, rooted) ==
  (IF rooted THEN <<<<"/">>>> ELSE <<>>) \o NormalComponents(segs, Len(segs), rooted)

\* Path::components: RootDir is "/", then the normal components
Components(p) == ComponentsOf(Segments(p), HasRoot(p))

\* Path::starts_with("~"): the first component is the normal component "~".
PathStartsWithTilde(p) == StartsWith(Components(p), <<Tilde>>)

RECURSIVE TrimLeft(_)
\* Components::trim_left: leading separators and "." pieces are skipped.
TrimLeft(s) ==
  IF s = <<>> THEN s
  ELSE IF s[1] = "/" THEN TrimLeft(Tail(s))
  ELSE IF s[1] = "." /\ (Len(s) = 1 \/ s[2] = "/") THEN TrimLeft(Tail(s))
  ELSE s

RECURSIVE TrimRight(_)
\* Components::trim_right: trailing separators and "." pieces are skipped.
TrimRight(s) ==
  IF s = <<>> THEN s
  ELSE IF s[Len(s)] = "/" THEN TrimRight(SubSeq(s, 1, Len(s) - 1))
  ELSE IF s[Len(s)] = "." /\ (Len(s) = 1 \/ s[Len(s) - 1] = "/")
  THEN TrimRight(SubSeq(s, 1, Len(s) - 1))
  ELSE s

\* Path::strip_prefix("~"): Option<path>, None when the prefix does not match;
\* the rest is Components::as_path of what follows the "~" component.
StripTilde(p) ==
  IF PathStartsWithTilde(p) THEN Some(TrimRight(TrimLeft(Tail(p)))) ELSE None

\* Path::join / PathBuf::push
PathJoin(base, p) ==
  IF HasRoot(p) THEN p
  ELSE IF base # <<>> /\ base[Len(base)] # "/" THEN base \o <<"/">> \o p
  ELSE base \o p

(***************************************************************************)
(* Path Expander                                                           *)
(***************************************************************************)
\* A do_expand that joins without stripping the shorthand.
DoExpandNoStrip(path, home_dir) ==
  IF IsSome(home_dir) THEN PathJoin(Unwrap(home_dir), path) ELSE path

\* do_expand: the expect on strip_prefix cannot fail for the callers' paths;
\* Unwrap of None is an evaluation error here as it is a panic there.
do_expand(path, home_dir) ==
  IF IsSome(home_dir)
  THEN PathJoin(Unwrap(home_dir), Unwrap(StripTilde(path)))
  ELSE path

\* do_expand panics (the expect on strip_prefix) when a home directory is given
\* and the path does not start with the shorthand.
DoExpandPanics(path, home_dir) == IsSome(home_dir) /\ StripTilde(path) = None

Returned(v) == [outcome |-> "returned", val |-> v]
Panicked == [outcome |-> "panicked", val |-> <<>>]

DoExpandOutcome(path, home_dir) ==
  IF DoExpandPanics(path, home_dir) THEN Panicked
  ELSE Returned(do_expand(path, home_dir))

\* expand_path as a call: what it returns, or that it panicked
ExpandOutcome(path, h) ==
  IF PathStartsWithTilde(path) THEN DoExpandOutcome(path, h) ELSE Returned(path)

\* expand_path, with env::home_dir() passed as h
expand_path(path, h) == ExpandOutcome(path, h).val

(***************************************************************************)
(* Resolution Engine                                                       *)
(***************************************************************************)
\* tag_priority_or_fallback
tag_priority_or_fallback(tag) ==
  IF IsSome(tag.priority) THEN Unwrap(tag.priority) ELSE DefaultPriority

RECURSIVE SortByKey(_)
\* Vec::sort_by_key(|r| r.1): a stable sort by ascending priority.  The
\* elements are inserted left to right, each after the elements whose key is
\* not greater.
SortByKey(v) ==
  IF v = <<>> THEN <<>>
  ELSE LET rest == SortByKey(SubSeq(v, 1, Len(v) - 1))
           x == v[Len(v)]
           k == Cardinality({i \in 1..Len(rest) : rest[i].prio <= x.prio})
       IN SubSeq(rest, 1, k) \o <<x>> \o SubSeq(rest, k + 1, Len(rest))

\* The three resolver closures: |tag| tag.<field>.clone()
Resolver(field, tag) == tag[field]

\* A workspace joiner that takes the first element.
JoinerFirst(kind, v) ==
  IF kind = "last" THEN v[1] ELSE JoinStrings(v, AndAnd)

\* The joiner closures: v.join(" && ") for the commands, v.pop().expect(..)
\* for the workspace.
Joiner(kind, v) ==
  IF kind = "last" THEN v[Len(v)] ELSE JoinStrings(v, AndAnd)

\* The flat_map of resolve_from_tags over the tag names in iteration order:
\* unknown names and tags lacking the field contribute nothing.
Collect(settings_tags, field, names) ==
  LET F[i \in 0..Len(names)] ==
        IF i = 0 THEN <<>>
        ELSE LET t == names[i]
             IN IF t \notin DOMAIN settings_tags THEN F[i - 1]
                ELSE IF IsSome(Resolver(field, settings_tags[t]))
                THEN F[i - 1] \o <<[val |-> Unwrap(Resolver(field, settings_tags[t])),
                                    prio |-> tag_priority_or_fallback(settings_tags[t])]>>
                ELSE F[i - 1]
  IN F[Len(names)]

\* A resolve_from_tags that gives up when a referenced tag is unknown.
ResolveStrict(cfg, field, kind, maybe_tags) ==
  IF maybe_tags = None \/ cfg.settings.tags = None THEN None
  ELSE LET tags == Unwrap(maybe_tags)
           settings_tags == Unwrap(cfg.settings.tags)
           sorted == SortByKey(Collect(settings_tags, field, BTreeSetIter(tags)))
           resolved == [i \in 1..Len(sorted) |-> sorted[i].val]
       IN IF resolved = <<>> \/ ~(tags \subseteq DOMAIN settings_tags) THEN None
          ELSE Some(Joiner(kind, resolved))

\* The tail of resolve_from_tags: the values of the sorted pairs, None when
\* there are none, else the joiner's result.
JoinResolved(kind, sorted) ==
  IF sorted = <<>> THEN None
  ELSE Some(Joiner(kind, [i \in 1..Len(sorted) |-> sorted[i].val]))

\* Config::resolve_from_tags: tags.iter().flat_map(..).collect(), sort_by_key,
\* then the joiner
resolve_from_tags(cfg, field, kind, maybe_tags) ==
  IF maybe_tags = None \/ cfg.settings.tags = None THEN None
  ELSE JoinResolved(kind,
         SortByKey(Collect(Unwrap(cfg.settings.tags), field,
                           BTreeSetIter(Unwrap(maybe_tags)))))

resolve_workon_from_tags(cfg, maybe_tags) ==
  resolve_from_tags(cfg, "after_workon", "join", maybe_tags)

resolve_after_clone_from_tags(cfg, maybe_tags) ==
  resolve_from_tags(cfg, "after_clone", "join", maybe_tags)

\* prepare_workon
prepare_workon(workon) == AndAnd \o workon

\* Option::unwrap_or_else
UnwrapOr(o, d) == IF IsSome(o) THEN Unwrap(o) ELSE d

\* Option::or_else
OptionOr(a, b) == IF IsSome(a) THEN a ELSE b

\* Config::resolve_workspace
resolve_workspace(cfg, project) ==
  UnwrapOr(resolve_from_tags(cfg, "workspace", "last", project.tags),
           cfg.settings.workspace)

\* A resolve_after_clone that lets the tags win over the project's own value.
ResolveAfterCloneTagsFirst(cfg, project) ==
  LET t == resolve_after_clone_from_tags(cfg, project.tags)
  IN IF IsSome(t) THEN t ELSE project.after_clone

\* Config::resolve_after_clone
resolve_after_clone(cfg, project) ==
  IF IsSome(project.after_clone) THEN project.after_clone
  ELSE resolve_after_clone_from_tags(cfg, project.tags)

\* .map(|c| prepare_workon(&c)).unwrap_or_else(|| "".to_owned())
PreparedOrEmpty(c) == IF IsSome(c) THEN prepare_workon(Unwrap(c)) ELSE <<>>

\* Config::resolve_after_workon
resolve_after_workon(cfg, project) ==
  PreparedOrEmpty(IF IsSome(project.after_workon) THEN project.after_workon
                  ELSE resolve_workon_from_tags(cfg, project.tags))

\* Config::actual_path_to_project, with env::home_dir() passed as h
actual_path_to_project(cfg, project, h) ==
  expand_path(IF IsSome(project.override_path) THEN Unwrap(project.override_path)
              ELSE PathJoin(resolve_workspace(cfg, project), project.name),
              h)

(***************************************************************************)
(* Inputs of the resolution and expansion calls                            *)
(***************************************************************************)
Tag1 == <<"t", "a", "g", "1">>
Tag12 == <<"t", "a", "g", "1", "2">>
Tag2 == <<"t", "a", "g", "2">>
TagX == <<"t", "a", "g", "x">>
DefinedTags == {Tag1, Tag12, Tag2}

Fw == <<"f", "w">>
HomeDir == <<"/", "h">>
Homes == {None, Some(HomeDir)}

\* The values a tag carries: tag N has after_clone "cN", after_workon "wN";
\* the workspaces are an absolute, a home-relative and a relative path.
CloneOf(t) == IF t = Tag1 THEN <<"c", "1">> ELSE IF t = Tag12 THEN <<"c", "1", "2">> ELSE <<"c", "2">>
WorkonOf(t) == IF t = Tag1 THEN <<"w", "1">> ELSE IF t = Tag12 THEN <<"w", "1", "2">> ELSE <<"w", "2">>
WorkspaceOf(t) == IF t = Tag1 THEN <<"/", "a">> ELSE IF t = Tag12 THEN <<"~", "/", "b">> ELSE <<"c">>

PrioChoices == {None, Some(0), Some(50), Some(100)}

\* Which fields each defined tag carries: "full", "bare" (no field), "cmds"
\* (commands, no workspace), "ws" (workspace only), "absent" (not in the map).
TagShapes ==
  { [t \in DefinedTags |-> "full"],
    [t \in DefinedTags |-> IF t = Tag12 THEN "bare" ELSE "full"],
    [t \in DefinedTags |-> IF t = Tag1 THEN "absent" ELSE "full"],
    [t \in DefinedTags |-> IF t = Tag2 THEN "cmds" ELSE "ws"],
    [t \in DefinedTags |-> "bare"] }

MkTag(t, shape, prio) ==
  [after_clone  |-> IF shape \in {"full", "cmds"} THEN Some(CloneOf(t)) ELSE None,
   after_workon |-> IF shape \in {"full", "cmds"} THEN Some(WorkonOf(t)) ELSE None,
   priority     |-> prio,
   workspace    |-> IF shape \in {"full", "ws"} THEN Some(WorkspaceOf(t)) ELSE None]

TagMaps ==
  { [t \in {u \in DefinedTags : shape[u] # "absent"} |-> MkTag(t, shape[t], prio[t])] :
      shape \in TagShapes, prio \in [DefinedTags -> PrioChoices] }

MkSettings(ws, tags) ==
  [workspace |-> ws, shell |-> None, default_after_workon |-> None,
   default_after_clone |-> None, default_tags |-> None, tags |-> tags]

NoProjects == [k \in {} |-> {}]

ResolveConfigs ==
  { [projects |-> NoProjects, settings |-> MkSettings(ws, tags)] :
      ws \in {<<"/", "w">>, <<"~", "/", "w">>},
      tags \in {None} \cup {Some(m) : m \in TagMaps} }

ProjectTagSets ==
  {None, Some({}), Some({Tag1}), Some({Tag2, Tag12}), Some({Tag1, Tag2}),
   Some({Tag1, Tag12, Tag2}), Some({TagX}), Some({Tag1, TagX}),
   Some({Tag1, Tag12, Tag2, TagX})}

OwnClone == <<"o", "c">>
OwnWorkon == <<"o", "w">>

ResolveProjects ==
  { [name |-> Fw, git |-> <<"u">>, after_clone |-> own[1], after_workon |-> own[2],
     override_path |-> own[3], tags |-> ts] :
      own \in { <<None, None, None>>,
                <<Some(OwnClone), Some(OwnWorkon), None>>,
                <<None, None, Some(<<"~", "/", "o">>)>>,
                <<None, Some(OwnWorkon), Some(<<"/", "o">>)>> },
      ts \in ProjectTagSets }

Idle == [op |-> "idle", outcome |-> "none", val |-> <<>>]

\* AppError: UserError(String) | IO(..) | BadJson(..).  A UserError's message is
\* kept as its template (what) and the values formatted into it.
UserError(what, name, path) == [kind |-> "UserError", what |-> what, name |-> name, path |-> path]
IOError == [kind |-> "IO", what |-> "io", name |-> <<>>, path |-> <<>>]
BadJson == [kind |-> "BadJson", what |-> "json", name |-> <<>>, path |-> <<>>]

Ok(v) == [ok |-> TRUE, val |-> <<v>>, err |-> <<>>]
Err(e) == [ok |-> FALSE, val |-> <<>>, err |-> <<e>>]
Unit == "unit"

\* The config file: missing, not JSON of a Config, or the JSON of a Config
\* (held as the Config it deserializes to).
FileMissing == [kind |-> "missing", cfg |-> <<>>]
FileGarbage == [kind |-> "garbage", cfg |-> <<>>]
FileJson(c) == [kind |-> "json", cfg |-> <<c>>]

NoCall ==
  [kind |-> "none", name |-> None, url |-> <<>>, key |-> None, git |-> None,
   after_workon |-> None, after_clone |-> None, override_path |-> None,
   config |-> None, before |-> FileMissing]

\* The catalog variables are not used by the resolution and expansion calls.
CatalogUnused ==
  /\ cfgPath = None
  /\ file = FileMissing
  /\ loaded = None
  /\ call = NoCall
  /\ result = None
  /\ ops = 0

InitResolve ==
  /\ home \in Homes
  /\ rin \in [cfg : ResolveConfigs, project : ResolveProjects]
  /\ rout = Idle
  /\ CatalogUnused

ResolveAfterClone ==
  /\ rout = Idle
  /\ rout' = [op |-> "after_clone", outcome |-> "returned",
              val |-> resolve_after_clone(rin.cfg, rin.project)]
  /\ UNCHANGED <<home, cfgPath, file, loaded, call, result, ops, rin>>

ResolveAfterWorkon ==
  /\ rout = Idle
  /\ rout' = [op |-> "after_workon", outcome |-> "returned",
              val |-> resolve_after_workon(rin.cfg, rin.project)]
  /\ UNCHANGED <<home, cfgPath, file, loaded, call, result, ops, rin>>

ActualPathToProject ==
  /\ rout = Idle
  /\ rout' = [op |-> "path", outcome |-> "returned",
              val |-> actual_path_to_project(rin.cfg, rin.project, home)]
  /\ UNCHANGED <<home, cfgPath, file, loaded, call, result, ops, rin>>

NextResolve == ResolveAfterClone \/ ResolveAfterWorkon \/ ActualPathToProject

SpecResolve == InitResolve /\ [][NextResolve]_vars

(***************************************************************************)
(* Properties of the resolution engine (checked under SpecResolve)         *)
(***************************************************************************)
Known(cfg) ==
  IF cfg.settings.tags = None THEN {} ELSE DOMAIN Unwrap(cfg.settings.tags)

TagDef(cfg, t) == Unwrap(cfg.settings.tags)[t]

\* The referenced tags that are defined and carry the field.
Contributing(cfg, p, field) ==
  IF p.tags = None THEN {}
  ELSE {t \in Unwrap(p.tags) \cap Known(cfg) : IsSome(TagDef(cfg, t)[field])}

PrioOf(cfg, t) ==
  IF TagDef(cfg, t).priority = None THEN 50 ELSE Unwrap(TagDef(cfg, t).priority)

\* a comes before b: lower priority, or equal priority and smaller name
Before(cfg, a, b) ==
  \/ PrioOf(cfg, a) < PrioOf(cfg, b)
  \/ PrioOf(cfg, a) = PrioOf(cfg, b) /\ StrLess(a, b)

\* The tags of K listed by (priority, name): the i-th has i-1 tags before it.
Ordered(cfg, K) ==
  [i \in 1..Cardinality(K) |->
     CHOOSE t \in K : Cardinality({u \in K : Before(cfg, u, t)}) = i - 1]

JoinedByOrder(cfg, K, field) ==
  LET ord == Ordered(cfg, K)
  IN JoinStrings([i \in 1..Len(ord) |-> Unwrap(TagDef(cfg, ord[i])[field])], AndAnd)

\* C1: without a project-level command, resolve_after_clone and
\* resolve_after_workon join the values of the contributing tags in ascending
\* priority (default 50) and, among equal priorities, in ascending tag name;
\* the result is a function of the set of referenced tag names.
C1_PriorityThenNameOrder ==
  \A f \in {"after_clone", "after_workon"} :
    LET K == Contributing(rin.cfg, rin.project, f)
    IN (rout.op = f /\ rin.project[f] = None /\ K # {}) =>
         rout.val = IF f = "after_clone"
                    THEN Some(JoinedByOrder(rin.cfg, K, f))
                    ELSE AndAnd \o JoinedByOrder(rin.cfg, K, f)

\* Three contributing tags, the smallest name with the highest priority and the
\* other two tied at 50 (one of them by default).
C1_Witness ==
  /\ rout.op = "after_workon"
  /\ rin.project.after_workon = None
  /\ Contributing(rin.cfg, rin.project, "after_workon") = {Tag1, Tag12, Tag2}
  /\ TagDef(rin.cfg, Tag1).priority = Some(100)
  /\ TagDef(rin.cfg, Tag12).priority = None
  /\ TagDef(rin.cfg, Tag2).priority = Some(50)
  /\ rout.val = AndAnd \o <<"w", "1", "2">> \o AndAnd \o <<"w", "2">>
                  \o AndAnd \o <<"w", "1">>

ApplyOp(op, cfg, p, h) ==
  IF op = "after_clone" THEN resolve_after_clone(cfg, p)
  ELSE IF op = "after_workon" THEN resolve_after_workon(cfg, p)
  ELSE actual_path_to_project(cfg, p, h)

\* C2: a referenced tag name that settings.tags does not define never makes
\* resolution fail; each of the three results is the one obtained for the same
\* project with the unknown names removed from its tag set.
C2_UnknownTagsIgnored ==
  (rout.op \in {"after_clone", "after_workon", "path"} /\ IsSome(rin.project.tags)) =>
    LET q == [rin.project EXCEPT !.tags = Some(Unwrap(@) \cap Known(rin.cfg))]
    IN /\ rout.outcome = "returned"
       /\ rout.val = ApplyOp(rout.op, rin.cfg, q, home)

C2_Witness ==
  /\ rout.op = "after_clone"
  /\ rin.project.after_clone = None
  /\ rin.project.tags = Some({Tag1, TagX})
  /\ TagX \notin Known(rin.cfg)
  /\ rout.val = Some(<<"c", "1">>)

\* C3: the project's own after_clone / after_workon wins over the tags;
\* without it the tag merge is used; without it and without a contributing tag
\* resolve_after_clone is None and resolve_after_workon is the empty string.
C3_LayeredPrecedence ==
  LET p == rin.project
      cfg == rin.cfg
  IN /\ rout.op = "after_clone" =>
          /\ IsSome(p.after_clone) => rout.val = p.after_clone
          /\ p.after_clone = None =>
               rout.val = resolve_after_clone_from_tags(cfg, p.tags)
          /\ (p.after_clone = None /\ Contributing(cfg, p, "after_clone") = {}) =>
               rout.val = None
     /\ rout.op = "after_workon" =>
          /\ IsSome(p.after_workon) => rout.val = AndAnd \o Unwrap(p.after_workon)
          /\ (p.after_workon = None /\ Contributing(cfg, p, "after_workon") # {}) =>
               rout.val = AndAnd \o Unwrap(resolve_workon_from_tags(cfg, p.tags))
          /\ (p.after_workon = None /\ Contributing(cfg, p, "after_workon") = {}) =>
               rout.val = <<>>

\* The project's own command is returned although its tags contribute.
C3_Witness ==
  /\ rout.op = "after_clone"
  /\ rin.project.after_clone = Some(OwnClone)
  /\ Contributing(rin.cfg, rin.project, "after_clone") # {}
  /\ rout.val = Some(OwnClone)

\* C4: with an override_path the resolved path is the expanded override_path;
\* otherwise it is expand(W joined with the name), W the workspace of the
\* referenced tag that is last by (priority, name) among those defining a
\* workspace, or settings.workspace when there is none.
C4_WorkspaceResolution ==
  rout.op = "path" =>
    LET p == rin.project
        cfg == rin.cfg
        K == Contributing(cfg, p, "workspace")
        top == CHOOSE t \in K : \A u \in K \ {t} : Before(cfg, u, t)
        W == IF K = {} THEN cfg.settings.workspace
             ELSE Unwrap(TagDef(cfg, top).workspace)
    IN rout.val = IF IsSome(p.override_path)
                  THEN expand_path(Unwrap(p.override_path), home)
                  ELSE expand_path(PathJoin(W, p.name), home)

\* Three tags of equal priority define a workspace: the greatest name wins.
C4_Witness ==
  /\ rout.op = "path"
  /\ rin.project.override_path = None
  /\ Contributing(rin.cfg, rin.project, "workspace") = {Tag1, Tag12, Tag2}
  /\ \A t \in DefinedTags : PrioOf(rin.cfg, t) = 50
  /\ rout.val = <<"c", "/", "f", "w">>

(***************************************************************************)
(* The path expander called on its own (SpecExpand)                        *)
(***************************************************************************)
MaxPathLen == 3
PathAlphabet == {"~", "/", "a", "."}

TildeFooBar == <<"~", "/", "f", "o", "o", "/", "b", "a", "r">>
FooBar == <<"/", "f", "o", "o", "/", "b", "a", "r">>
MyHome == <<"/", "m", "y", "/", "h", "o", "m", "e">>
MyHomeFooBar == <<"/", "m", "y", "/", "h", "o", "m", "e", "/", "f", "o", "o", "/", "b", "a", "r">>

ExpandPaths ==
  UNION {[1..k -> PathAlphabet] : k \in 0..MaxPathLen} \cup {TildeFooBar, FooBar}

ExpandHomes == {None, Some(HomeDir), Some(<<"h">>), Some(<<"/", "h", "/">>), Some(MyHome)}

InitExpand ==
  /\ home \in ExpandHomes
  /\ rin \in [path : ExpandPaths]
  /\ rout = Idle
  /\ CatalogUnused

\* expand_path(path) in a process whose home directory is `home`
ExpandPath ==
  /\ rout = Idle
  /\ rout' = [op |-> "expand"] @@ ExpandOutcome(rin.path, home)
  /\ UNCHANGED <<home, cfgPath, file, loaded, call, result, ops, rin>>

\* do_expand(path, home_dir) called directly, as the unit test does
DoExpand ==
  /\ rout = Idle
  /\ rout' = [op |-> "do_expand"] @@ DoExpandOutcome(rin.path, home)
  /\ UNCHANGED <<home, cfgPath, file, loaded, call, result, ops, rin>>

NextExpand == ExpandPath \/ DoExpand

SpecExpand == InitExpand /\ [][NextExpand]_vars

\* C10 as stated: unchanged without a leading "~", home joined with the rest
\* with one, and a failure instead of a path when "~" leads and no home
\* directory is known.
C10_Original ==
  rout.op = "expand" =>
    /\ ~PathStartsWithTilde(rin.path) => rout = [op |-> "expand"] @@ Returned(rin.path)
    /\ (PathStartsWithTilde(rin.path) /\ home = None) => rout.outcome # "returned"

\* C10 (amended): expand returns the path unchanged when its first component
\* is not "~"; it returns the home directory joined with the remaining
\* components when the first component is "~" and a home directory is known
\* ("~/foo/bar" with home "/my/home" gives "/my/home/foo/bar"); and it returns
\* the path unchanged, without failing, when the first component is "~" and
\* no home directory is known.
C10_ExpandByCases ==
  rout.op = "expand" =>
    /\ rout.outcome = "returned"
    /\ ~PathStartsWithTilde(rin.path) => rout.val = rin.path
    /\ (PathStartsWithTilde(rin.path) /\ IsSome(home)) =>
         Components(rout.val) = Components(Unwrap(home)) \o Tail(Components(rin.path))
    /\ (rin.path = TildeFooBar /\ home = Some(MyHome)) => rout.val = MyHomeFooBar
    /\ (PathStartsWithTilde(rin.path) /\ home = None) => rout.val = rin.path

\* "~/a" expanded without a home directory comes back as it was.
C10_Witness ==
  /\ rout.op = "expand"
  /\ home = None
  /\ rin.path = <<"~", "/", "a">>
  /\ rout = [op |-> "expand", outcome |-> "returned", val |-> <<"~", "/", "a">>]

(***************************************************************************)
(* Sanity Checker and Persistence Gateway                                  *)
(***************************************************************************)
\* The answer of Project::check_sanity for the resolved path
SanityOf(name, path) ==
  IF IsAbsolute(path) THEN Ok(Unit)
  ELSE Err(UserError("resolved path is relative", name, path))

\* Project::check_sanity
Project_check_sanity(project, cfg, h) ==
  SanityOf(project.name, actual_path_to_project(cfg, project, h))

RECURSIVE CheckProjects(_, _, _)
\* The loop of Config::check_sanity over projects.values(), keys being the
\* keys still to visit: `?` returns the first error.
CheckProjects(keys, cfg, h) ==
  IF keys = <<>> THEN Ok(cfg)
  ELSE IF ~Project_check_sanity(cfg.projects[Head(keys)], cfg, h).ok
  THEN Err(Unwrap(Project_check_sanity(cfg.projects[Head(keys)], cfg, h).err))
  ELSE CheckProjects(Tail(keys), cfg, h)

\* Config::check_sanity: the projects in key order
check_sanity(cfg, h) == CheckProjects(BTreeSetIter(DOMAIN cfg.projects), cfg, h)

\* read_config: the reader's error, or BadJson, or the sanity check's answer
read_config(reader, h) ==
  IF ~reader.ok THEN reader
  ELSE IF Unwrap(reader.val).kind # "json" THEN Err(BadJson)
  ELSE check_sanity(Unwrap(Unwrap(reader.val).cfg), h)

DotFwJson == <<".", "f", "w", ".", "j", "s", "o", "n">>

\* default_config_path
default_config_path(h) ==
  IF h = None THEN Err(UserError("$HOME not set", <<>>, <<>>))
  ELSE Ok(PathJoin(Unwrap(h), DotFwJson))

\* actual_config_path
actual_config_path(maybe_config_override, h) ==
  IF IsSome(maybe_config_override) THEN Ok(Unwrap(maybe_config_override))
  ELSE default_config_path(h)

\* determine_config: f is the file at the config path (paths here are valid
\* UTF-8, so to_str succeeds)
determine_config(maybe_config_override, h, f) ==
  LET config_file_path == actual_config_path(maybe_config_override, h)
  IN IF ~config_file_path.ok THEN config_file_path
     ELSE IF f.kind = "missing" THEN Err(IOError)
     ELSE Ok(f)

\* get_config
get_config(maybe_config_override, h, f) ==
  read_config(determine_config(maybe_config_override, h, f), h)

\* A write_config that writes without the sanity check.
WriteConfigUnchecked(config, maybe_config_override, h, f, io) ==
  LET config_path == actual_config_path(maybe_config_override, h)
  IN IF ~config_path.ok THEN [res |-> config_path, file |-> f]
     ELSE IF io = "create fails" THEN [res |-> Err(IOError), file |-> f]
     ELSE IF io = "write fails" THEN [res |-> Err(BadJson), file |-> FileGarbage]
     ELSE [res |-> Ok(Unit), file |-> FileJson(config)]

\* write_config after actual_config_path and check_sanity were evaluated.
\* io is what the file system does: File::create can fail, and the file is as
\* before; the write into the created (truncated) file can fail, which
\* serde_json reports and map_err turns into BadJson, and the file is left
\* incomplete.
WriteChecked(config_path, c, f, io) ==
  IF ~config_path.ok THEN [res |-> config_path, file |-> f]
  ELSE IF ~c.ok THEN [res |-> c, file |-> f]
  ELSE IF io = "create fails" THEN [res |-> Err(IOError), file |-> f]
  ELSE IF io = "write fails" THEN [res |-> Err(BadJson), file |-> FileGarbage]
  ELSE [res |-> Ok(Unit), file |-> FileJson(Unwrap(c.val))]

\* write_config: the result and the file afterwards
write_config(config, maybe_config_override, h, f, io) ==
  WriteChecked(actual_config_path(maybe_config_override, h), check_sanity(config, h), f, io)

(***************************************************************************)
(* Catalog Mutator                                                         *)
(***************************************************************************)
RECURSIVE RSplitNext(_)
\* url.rsplit('/').next(): the piece after the last '/', always Some
RSplitNext(url) ==
  IF url = <<>> THEN Some(<<>>)
  ELSE IF url[Len(url)] = "/" THEN Some(<<>>)
  ELSE Some(Unwrap(RSplitNext(SubSeq(url, 1, Len(url) - 1))) \o <<url[Len(url)]>>)

RECURSIVE TrimRightMatches(_)
\* str::trim_right_matches(".git")
TrimRightMatches(s) ==
  IF EndsWith(s, DotGit) THEN TrimRightMatches(SubSeq(s, 1, Len(s) - 4)) ELSE s

\* A repo_name_from_url that trims every trailing ".git".
RepoNameTrimAll(url) == Ok(TrimRightMatches(Unwrap(RSplitNext(url))))

\* repo_name_from_url
repo_name_from_url(url) ==
  LET next == RSplitNext(url)
  IN IF next = None THEN Err(UserError("URL does not have path fragments", url, <<>>))
     ELSE LET last_fragment == Unwrap(next)
          IN Ok(IF EndsWith(last_fragment, DotGit)
                THEN SubSeq(last_fragment, 1, Len(last_fragment) - 4)
                ELSE last_fragment)

\* The `name` of add_entry: the given name, or else the one derived from the URL
AddName(maybe_name, url) ==
  IF IsSome(maybe_name) THEN Ok(Unwrap(maybe_name)) ELSE repo_name_from_url(url)

\* BTreeMap::insert
MapInsert(m, k, v) == [x \in DOMAIN m \cup {k} |-> IF x = k THEN v ELSE m[x]]

\* The Project that add_entry inserts
NewProject(config, n, url) ==
  [git |-> url, name |-> n,
   after_clone |-> config.settings.default_after_clone,
   after_workon |-> config.settings.default_after_workon,
   override_path |-> None,
   tags |-> config.settings.default_tags]

\* An add_entry that overwrites an existing key.
AddToOverwrites(config, n, url, maybe_config_override, h, f, io) ==
  write_config([config EXCEPT !.projects = MapInsert(@, n, NewProject(config, n, url))],
               maybe_config_override, h, f, io)

\* add_entry once `name` and `config` are bound
AddTo(config, n, url, maybe_config_override, h, f, io) ==
  IF n \in DOMAIN config.projects
  THEN [res |-> Err(UserError("Project key already exists", n, <<>>)), file |-> f]
  ELSE write_config([config EXCEPT !.projects = MapInsert(@, n, NewProject(config, n, url))],
                    maybe_config_override, h, f, io)

\* add_entry after `name` was evaluated: its `?`, then maybe_config?
AddNamed(name, maybe_config, url, maybe_config_override, h, f, io) ==
  IF ~name.ok THEN [res |-> name, file |-> f]
  ELSE IF ~maybe_config.ok THEN [res |-> maybe_config, file |-> f]
  ELSE AddTo(Unwrap(maybe_config.val), Unwrap(name.val), url, maybe_config_override, h, f, io)

\* add_entry: the result and the file afterwards
add_entry(maybe_config, maybe_name, url, maybe_config_override, h, f, io) ==
  AddNamed(AddName(maybe_name, url), maybe_config, url, maybe_config_override, h, f, io)

\* The Project that update_entry builds from the old one, keeping the tags.
UpdatedProjectKeepsTags(old, git, after_workon, after_clone, override_path) ==
  [git |-> IF IsSome(git) THEN Unwrap(git) ELSE old.git,
   name |-> old.name,
   after_clone |-> OptionOr(after_clone, old.after_clone),
   after_workon |-> OptionOr(after_workon, old.after_workon),
   override_path |-> OptionOr(override_path, old.override_path),
   tags |-> old.tags]

\* The Project that update_entry builds from the old one.
UpdatedProject(old, git, after_workon, after_clone, override_path) ==
  [git |-> IF IsSome(git) THEN Unwrap(git) ELSE old.git,
   name |-> old.name,
   after_clone |-> OptionOr(after_clone, old.after_clone),
   after_workon |-> OptionOr(after_workon, old.after_workon),
   override_path |-> OptionOr(override_path, old.override_path),
   tags |-> None]

\* update_entry: the result and the file afterwards
update_entry(maybe_config, name, git, after_workon, after_clone, override_path, maybe_config_override, h, f, io) ==
  IF ~maybe_config.ok THEN [res |-> maybe_config, file |-> f]
  ELSE LET config == Unwrap(maybe_config.val)
       IN IF StartsWith(name, Http) \/ StartsWith(name, GitAt)
          THEN [res |-> Err(UserError("looks like a repo URL", name, <<>>)), file |-> f]
          ELSE IF name \notin DOMAIN config.projects
          THEN [res |-> Err(UserError("Project key does not exist", name, <<>>)), file |-> f]
          ELSE write_config(
                 [config EXCEPT !.projects = MapInsert(@, name,
                    UpdatedProject(config.projects[name], git, after_workon,
                                   after_clone, override_path))],
                 maybe_config_override, h, f, io)

(***************************************************************************)
(* The catalog as a state machine (Spec): a process loads the config file, *)
(* adds or updates an entry, or saves the config, any number of times.     *)
(* file is the file at the config path; without a config path (no override *)
(* and no home directory) there is no such file.                           *)
(***************************************************************************)
MaxOps == 3

Zz == <<"z", "z">>
UrlHttps == <<"h","t","t","p","s",":","/","/","g","i","t","h","u","b",".","c","o","m","/","m","r","i","e","h","l","/","f","w">>
UrlSsh == <<"g","i","t","@","g","i","t","h","u","b",".","c","o","m",":","m","r","i","e","h","l","/","f","w",".","g","i","t">>
UrlSshGitGit == UrlSsh \o DotGit
UrlSlash == <<"x", "/">>
FwGit == <<"f", "w", ".", "g", "i", "t">>

MkProject(name, git, ac, aw, op, tags) ==
  [name |-> name, git |-> git, after_clone |-> ac, after_workon |-> aw,
   override_path |-> op, tags |-> tags]

\* A relative settings.workspace, hidden by the workspace of the default tag.
CfgTagged ==
  [projects |-> (Fw :> MkProject(Fw, UrlHttps, None, None, None, Some({Tag1, TagX}))),
   settings |-> [MkSettings(<<"w">>, Some(Tag1 :> MkTag(Tag1, "full", None)))
                   EXCEPT !.default_tags = Some({Tag1})]]

\* A home-relative workspace, defaults for the commands, a key that looks
\* like a URL.
CfgHome ==
  [projects |-> (Fw :> MkProject(Fw, UrlSsh, Some(OwnClone), None, None, None))
                @@ (Http :> MkProject(Http, UrlHttps, None, None, Some(<<"/", "o">>), None)),
   settings |-> [MkSettings(<<"~", "/", "w">>, None)
                   EXCEPT !.default_after_clone = Some(<<"d", "c">>),
                          !.default_after_workon = Some(<<"d", "w">>)]]

\* A hand-edited file whose key differs from the project's name field.
CfgRenamed ==
  [projects |-> (Fw :> MkProject(Zz, UrlSsh, None, Some(OwnWorkon), None, Some({TagX}))),
   settings |-> MkSettings(<<"/", "w">>, None)]

\* A project whose override_path is relative.
CfgRelative ==
  [projects |-> (Fw :> MkProject(Fw, UrlSsh, None, None, Some(<<"r">>), None)),
   settings |-> MkSettings(<<"/", "w">>, None)]

SampleConfigs == {CfgTagged, CfgHome, CfgRenamed, CfgRelative}

InitFiles == {FileMissing, FileGarbage} \cup {FileJson(c) : c \in SampleConfigs}

ConfigOverrides == {None, Some(<<"/", "c">>)}

\* add: (maybe_name, url)
AddInputs ==
  { <<None, UrlHttps>>, <<None, UrlSsh>>, <<None, UrlSshGitGit>>, <<None, UrlSlash>>,
    <<Some(Http), UrlHttps>>, <<Some(Http), UrlSlash>>, <<Some(Fw), UrlSshGitGit>> }

UpdateNames == {Fw, Http, Zz}

\* update: (git, after_workon, after_clone, override_path)
UpdateInputs ==
  { <<None, None, None, None>>,
    <<Some(UrlSlash), None, None, None>>,
    <<None, Some(<<"u", "w">>), Some(<<"u", "c">>), None>>,
    <<None, None, None, Some(<<"/", "p">>)>>,
    <<Some(UrlSlash), None, Some(<<"u", "c">>), Some(<<"r">>)>> }

IoOutcomes == {"ok", "create fails", "write fails"}

Init ==
  /\ home \in Homes
  /\ cfgPath \in ConfigOverrides
  /\ file \in IF actual_config_path(cfgPath, home).ok THEN InitFiles ELSE {FileMissing}
  /\ loaded = None
  /\ call = NoCall
  /\ result = None
  /\ ops = 0
  /\ rin = [path |-> <<>>]
  /\ rout = Idle

\* An operation returns r.res and leaves the file as r.file.
Returns(r) ==
  /\ result' = Some(r.res)
  /\ file' = r.file

\* get_config: the caller now holds the Result
GetConfig ==
  /\ loaded' = Some(get_config(cfgPath, home, file))
  /\ call' = [NoCall EXCEPT !.kind = "get", !.before = file]
  /\ result' = None
  /\ UNCHANGED <<home, cfgPath, file, ops, rin, rout>>

\* add_entry(maybe_config, maybe_name, url, ..): maybe_config is moved in
AddEntry(maybe_name, url, io) ==
  /\ ops < MaxOps
  /\ IsSome(loaded)
  /\ Returns(add_entry(Unwrap(loaded), maybe_name, url, cfgPath, home, file, io))
  /\ call' = [NoCall EXCEPT !.kind = "add", !.name = maybe_name, !.url = url,
                            !.key = AddName(maybe_name, url).val,
                            !.config = loaded, !.before = file]
  /\ loaded' = None
  /\ ops' = ops + 1
  /\ UNCHANGED <<home, cfgPath, rin, rout>>

\* update_entry(maybe_config, name, git, after_workon, after_clone, override_path, ..)
UpdateEntry(name, git, after_workon, after_clone, override_path, io) ==
  /\ ops < MaxOps
  /\ IsSome(loaded)
  /\ Returns(update_entry(Unwrap(loaded), name, git, after_workon, after_clone,
                          override_path, cfgPath, home, file, io))
  /\ call' = [NoCall EXCEPT !.kind = "update", !.name = Some(name), !.key = Some(name),
                            !.git = git, !.after_workon = after_workon,
                            !.after_clone = after_clone,
                            !.override_path = override_path,
                            !.config = loaded, !.before = file]
  /\ loaded' = None
  /\ ops' = ops + 1
  /\ UNCHANGED <<home, cfgPath, rin, rout>>

\* write_config(config, ..): the caller saves the config it holds, which is
\* moved in
WriteConfig(io) ==
  /\ ops < MaxOps
  /\ IsSome(loaded)
  /\ Unwrap(loaded).ok
  /\ Returns(write_config(Unwrap(Unwrap(loaded).val), cfgPath, home, file, io))
  /\ call' = [NoCall EXCEPT !.kind = "write", !.config = loaded, !.before = file]
  /\ loaded' = None
  /\ ops' = ops + 1
  /\ UNCHANGED <<home, cfgPath, rin, rout>>

Next ==
  \/ GetConfig
  \/ \E a \in AddInputs, io \in IoOutcomes : AddEntry(a[1], a[2], io)
  \/ \E n \in UpdateNames, u \in UpdateInputs, io \in IoOutcomes :
       UpdateEntry(n, u[1], u[2], u[3], u[4], io)
  \/ \E io \in IoOutcomes : WriteConfig(io)

Spec == Init /\ [][Next]_vars

(***************************************************************************)
(* Properties of the catalog (checked under Spec)                          *)
(***************************************************************************)
\* Every project of cfg resolves to an absolute path.
Sane(cfg, h) ==
  \A k \in DOMAIN cfg.projects : IsAbsolute(actual_path_to_project(cfg, cfg.projects[k], h))

\* e is the sanity check's error for some project of cfg with a relative path.
NamesOffender(e, cfg, h) ==
  \E k \in DOMAIN cfg.projects :
    /\ ~IsAbsolute(actual_path_to_project(cfg, cfg.projects[k], h))
    /\ e = UserError("resolved path is relative", cfg.projects[k].name,
                     actual_path_to_project(cfg, cfg.projects[k], h))

CallHasConfig == IsSome(call.config) /\ Unwrap(call.config).ok
CallConfig == Unwrap(Unwrap(call.config).val)
Mutation == call.kind \in {"add", "update", "write"}

\* The operation got a config and its key was not rejected, so it goes on to
\* save.
ReachesSave ==
  /\ Mutation
  /\ CallHasConfig
  /\ call.kind = "add" => Unwrap(call.key) \notin DOMAIN CallConfig.projects
  /\ call.kind = "update" =>
       /\ ~StartsWith(Unwrap(call.name), Http)
       /\ ~StartsWith(Unwrap(call.name), GitAt)
       /\ Unwrap(call.name) \in DOMAIN CallConfig.projects

\* The config the operation is about to save.
Candidate ==
  IF call.kind = "add"
  THEN [CallConfig EXCEPT !.projects =
          MapInsert(@, Unwrap(call.key), NewProject(CallConfig, Unwrap(call.key), call.url))]
  ELSE IF call.kind = "update"
  THEN [CallConfig EXCEPT !.projects =
          MapInsert(@, Unwrap(call.name),
                    UpdatedProject(CallConfig.projects[Unwrap(call.name)], call.git,
                                   call.after_workon, call.after_clone, call.override_path))]
  ELSE CallConfig

\* C5: a config returned by a successful load and a config written to the
\* file has an absolute resolved path for every project; a config with a
\* relative resolved path is answered by a user error naming an offending
\* project and its path, on load (after deserialization) and on every save
\* (before the file is created), and is neither returned nor written.
C5_SanityOnLoadAndSave ==
  /\ (IsSome(loaded) /\ Unwrap(loaded).ok) => Sane(Unwrap(Unwrap(loaded).val), home)
  /\ (Mutation /\ Unwrap(result).ok) =>
       file.kind = "json" /\ Sane(Unwrap(file.cfg), home)
  /\ (Mutation /\ file # call.before /\ file.kind = "json") => Sane(Unwrap(file.cfg), home)
  /\ (call.kind = "get" /\ file.kind = "json" /\ ~Sane(Unwrap(file.cfg), home)) =>
       /\ ~Unwrap(loaded).ok
       /\ NamesOffender(Unwrap(Unwrap(loaded).err), Unwrap(file.cfg), home)
  /\ (ReachesSave /\ ~Sane(Candidate, home)) =>
       /\ ~Unwrap(result).ok
       /\ NamesOffender(Unwrap(Unwrap(result).err), Candidate, home)
       /\ file = call.before

\* An update of a loaded (hence sane) config is refused by the check before
\* the save, and the file stays as it was.
C5_Witness ==
  /\ call.kind = "update"
  /\ CallHasConfig
  /\ Sane(CallConfig, home)
  /\ ~Unwrap(result).ok
  /\ Unwrap(Unwrap(result).err).what = "resolved path is relative"
  /\ Unwrap(Unwrap(result).err).path = <<"r">>
  /\ file = call.before

\* C6: add with a name that is already a key, and update with a name that
\* starts with "http" or "git@" or that is not a key, return a user error and
\* leave the persisted file as it was.
C6_RejectedKeysLeaveCatalog ==
  /\ (call.kind = "add" /\ CallHasConfig
        /\ Unwrap(call.key) \in DOMAIN CallConfig.projects) =>
       /\ result = Some(Err(UserError("Project key already exists", Unwrap(call.key), <<>>)))
       /\ file = call.before
  /\ (call.kind = "update" /\ CallHasConfig
        /\ (StartsWith(Unwrap(call.name), Http) \/ StartsWith(Unwrap(call.name), GitAt))) =>
       /\ result = Some(Err(UserError("looks like a repo URL", Unwrap(call.name), <<>>)))
       /\ file = call.before
  /\ (call.kind = "update" /\ CallHasConfig
        /\ Unwrap(call.name) \notin DOMAIN CallConfig.projects) =>
       /\ ~Unwrap(result).ok
       /\ Unwrap(Unwrap(result).err).kind = "UserError"
       /\ file = call.before

\* update of the existing key "http" is refused.
C6_Witness ==
  /\ call.kind = "update"
  /\ CallHasConfig
  /\ call.name = Some(Http)
  /\ Http \in DOMAIN CallConfig.projects
  /\ ~Unwrap(result).ok
  /\ file = call.before

\* C7: a successful update of `name` writes the config it was given with only
\* that project changed: git, after_workon, after_clone and override_path take
\* the argument when present and keep the old value when absent, the name
\* field is kept, the tags are none.
C7_UpdateFrame ==
  (call.kind = "update" /\ Unwrap(result).ok) =>
    LET key == Unwrap(call.name)
        old == CallConfig.projects[key]
        new == Unwrap(file.cfg).projects[key]
    IN /\ CallHasConfig
       /\ file.kind = "json"
       /\ Unwrap(file.cfg).settings = CallConfig.settings
       /\ DOMAIN Unwrap(file.cfg).projects = DOMAIN CallConfig.projects
       /\ \A k \in DOMAIN CallConfig.projects \ {key} :
            Unwrap(file.cfg).projects[k] = CallConfig.projects[k]
       /\ new.name = old.name
       /\ new.git = IF call.git = None THEN old.git ELSE Unwrap(call.git)
       /\ new.after_workon = IF call.after_workon = None THEN old.after_workon ELSE call.after_workon
       /\ new.after_clone = IF call.after_clone = None THEN old.after_clone ELSE call.after_clone
       /\ new.override_path = IF call.override_path = None THEN old.override_path ELSE call.override_path
       /\ new.tags = None

\* An update without any argument of a project that has tags succeeds.
C7_Witness ==
  /\ call.kind = "update"
  /\ Unwrap(result).ok
  /\ call.git = None /\ call.after_workon = None
  /\ call.after_clone = None /\ call.override_path = None
  /\ IsSome(CallConfig.projects[Unwrap(call.name)].tags)
  /\ Unwrap(file.cfg).projects[Unwrap(call.name)].tags = None

LastSegment(url) == Segments(url)[Len(Segments(url))]

\* The final '/'-delimited segment without one trailing ".git".
ExpectedName(url) ==
  IF EndsWith(LastSegment(url), DotGit)
  THEN SubSeq(LastSegment(url), 1, Len(LastSegment(url)) - 4)
  ELSE LastSegment(url)

\* C8: without a name, add uses the final '/'-delimited segment of the URL
\* with one trailing ".git" removed as key and as name field; with a name,
\* it uses that name.
C8_DerivedName ==
  call.kind = "add" =>
    /\ call.name = None => call.key = Some(ExpectedName(call.url))
    /\ IsSome(call.name) => call.key = call.name
    /\ (call.name = None /\ call.url = UrlHttps) => call.key = Some(Fw)
    /\ (call.name = None /\ call.url = UrlSsh) => call.key = Some(Fw)
    /\ (call.name = None /\ call.url = UrlSshGitGit) => call.key = Some(FwGit)
    /\ Unwrap(result).ok =>
         /\ file.kind = "json"
         /\ Unwrap(call.key) \in DOMAIN Unwrap(file.cfg).projects
         /\ Unwrap(call.key) \notin DOMAIN CallConfig.projects
         /\ Unwrap(file.cfg).projects[Unwrap(call.key)].name = Unwrap(call.key)
         /\ Unwrap(file.cfg).projects[Unwrap(call.key)].git = call.url

\* "git@github.com:mriehl/fw.git.git" is added under "fw.git".
C8_Witness ==
  /\ call.kind = "add"
  /\ call.name = None
  /\ call.url = UrlSshGitGit
  /\ Unwrap(result).ok
  /\ FwGit \in DOMAIN Unwrap(file.cfg).projects
  /\ Fw \in DOMAIN Unwrap(file.cfg).projects

\* C9: add without a name and with a URL whose final segment is empty fails
\* with a user error and adds nothing; add never inserts the empty key.
C9_NoDerivableNameFails ==
  /\ (call.kind = "add" /\ CallHasConfig /\ call.name = None
        /\ LastSegment(call.url) = <<>>) =>
       /\ ~Unwrap(result).ok
       /\ Unwrap(Unwrap(result).err).kind = "UserError"
       /\ file = call.before
  /\ (call.kind = "add" /\ Unwrap(result).ok) => Unwrap(call.key) # <<>>

\* Every key of the projects map is the name field of its project.
KeysEqualNames(cfg) == \A k \in DOMAIN cfg.projects : cfg.projects[k].name = k

\* C11: in the config a successful load returns, and in the config a
\* successful add or update of a loaded config leaves behind, every key of
\* the projects map equals the name field of the project stored under it.
C11_KeysEqualNames ==
  /\ (IsSome(loaded) /\ Unwrap(loaded).ok) =>
       KeysEqualNames(Unwrap(Unwrap(loaded).val))
  /\ (call.kind \in {"add", "update"} /\ Unwrap(result).ok) =>
       KeysEqualNames(Unwrap(file.cfg))

====
